---- MODULE Spec2Model ----
(***************************************************************************)
(* A model of image-core's decoding contract: ColorType, Progress and the  *)
(* default methods of the ImageDecoder trait (src/src/colortype.rs,        *)
(* src/src/decoder.rs).                                                    *)
(*                                                                         *)
(* Fixed-width integers wider than TLC's own are sequences of base-256     *)
(* digits, least significant first: a u32 is 4 digits, a u64 is 8.         *)
(***************************************************************************)
EXTENDS Integers, Sequences, FiniteSets, TLC

VARIABLES
    dec,              \* the decoder: dimensions, color_type, scanline_bytes override
    reader_ok,        \* whether the decoder's into_reader() succeeds
    chan_len,         \* bytes the channel delivers before its read fails (EOF or error)
    chan_pos,         \* bytes consumed from the channel so far
    buf,              \* the caller's destination buffer
    pc,               \* position inside read_image / read_image_with_progress
    entry,            \* which method the caller invoked
    target_read_size, \* local of read_image_with_progress
    bytes_read,       \* local of read_image_with_progress
    total_bytes_local,\* local total_bytes of read_image_with_progress
    result,           \* what the call returned
    events,           \* what the call did to its collaborators, in order
    arg,              \* input of a pure function under check
    ret,              \* its output
    earlier           \* <<>>, or <<o>>, o what an earlier call on the same inputs did

vars == <<dec, reader_ok, chan_len, chan_pos, buf, pc, entry, target_read_size,
          bytes_read, total_bytes_local, result, events, arg, ret, earlier>>

callVars == <<dec, reader_ok, chan_len, chan_pos, buf, pc, entry, target_read_size,
              bytes_read, total_bytes_local, result, events, earlier>>

None == "none"

Min(a, b) == IF a < b THEN a ELSE b

\* F(x), with x evaluated once, before F is
Let(F(_), x) == CHOOSE r \in {F(v) : v \in {x}} : TRUE

(***************************************************************************)
(* Fixed-width unsigned arithmetic.                                        *)
(***************************************************************************)
Base == 2^8

Zeros(n) == [i \in 1..n |-> 0]

\* the digits of a natural number below 2^31, n digits wide
Digits(x, n) == [i \in 1..n |-> IF i <= 4 THEN (x \div (Base^(i-1))) % Base ELSE 0]

U8(x) == Digits(x, 1)
U32(x) == Digits(x, 4)
U64(x) == Digits(x, 8)

\* zero-extension to n digits
Extend(a, n) == Let(LAMBDA x : [i \in 1..n |-> IF i <= Len(x) THEN x[i] ELSE 0], a)

\* the low n digits
Truncate(a, n) == Let(LAMBDA x : [i \in 1..n |-> x[i]], a)

IsZero(a) == Let(LAMBDA x : \A i \in 1..Len(x) : x[i] = 0, a)

RECURSIVE LessFrom(_, _, _)
\* a < b decided from digit i downwards (a and b equally wide)
LessFrom(a, b, i) ==
    IF i = 0 THEN FALSE
    ELSE IF a[i] # b[i] THEN a[i] < b[i]
    ELSE LessFrom(a, b, i - 1)

Less(a, b) ==
    LET n == IF Len(a) > Len(b) THEN Len(a) ELSE Len(b)
    IN  LessFrom(Extend(a, n), Extend(b, n), n)

Leq(a, b) == ~Less(b, a)

RECURSIVE ValueFrom(_, _)
\* the value of digits i.. of a
ValueFrom(a, i) == IF i > Len(a) THEN 0 ELSE a[i] + Base * ValueFrom(a, i + 1)

\* the value of a digit sequence that is known to be below 2^31
ToInt(a) == Let(LAMBDA x : ValueFrom(x, 1), a)

RECURSIVE AddCarry(_, _, _, _)
\* digits i.. of a + b + carry, a and b equally wide; one digit longer than a
AddCarry(a, b, i, carry) ==
    IF i > Len(a) THEN <<carry>>
    ELSE Let(LAMBDA s : <<s % Base>> \o AddCarry(a, b, i + 1, s \div Base),
             a[i] + b[i] + carry)

\* the exact sum, one digit wider than the wider operand
Add(a, b) ==
    LET n == IF Len(a) > Len(b) THEN Len(a) ELSE Len(b)
    IN  AddCarry(Extend(a, n), Extend(b, n), 1, 0)

RECURSIVE SubBorrow(_, _, _, _)
\* digits i.. of a - b - borrow modulo Base^Len(a), then the final borrow
SubBorrow(a, b, i, borrow) ==
    IF i > Len(a) THEN <<borrow>>
    ELSE Let(LAMBDA d : <<d % Base>> \o SubBorrow(a, b, i + 1, IF d < 0 THEN 1 ELSE 0),
             a[i] - b[i] - borrow)

RECURSIVE ColumnSum(_, _, _, _)
\* the sum of a[i] * b[k + 1 - i] over i = from..Len(a)
ColumnSum(a, b, k, from) ==
    IF from > Len(a) THEN 0
    ELSE (IF k + 1 - from \in 1..Len(b) THEN a[from] * b[k + 1 - from] ELSE 0)
         + ColumnSum(a, b, k, from + 1)

RECURSIVE MulFrom(_, _, _, _)
\* digits k.. of the exact product a * b, Len(a) + Len(b) digits in all
MulFrom(a, b, k, carry) ==
    IF k > Len(a) + Len(b) THEN <<>>
    ELSE Let(LAMBDA s : <<s % Base>> \o MulFrom(a, b, k + 1, s \div Base),
             ColumnSum(a, b, k, 1) + carry)

\* a without its leading (most significant) zero digits
Significant(a) ==
    Let(LAMBDA x : Truncate(x, CHOOSE n \in 0..Len(x) :
                                   /\ \A i \in (n + 1)..Len(x) : x[i] = 0
                                   /\ n = 0 \/ x[n] # 0),
        a)

\* the exact product, Len(a) + Len(b) digits wide
Mul(a, b) ==
    Let(LAMBDA x : Let(LAMBDA y : Extend(MulFrom(x, y, 1, 0), Len(a) + Len(b)),
                       Significant(b)),
        Significant(a))

\* u64 multiplication as the machine does it: the low 8 digits of the product
MulU64(a, b) == Truncate(Mul(a, b), 8)

\* whether the exact product of two u64 does not fit in a u64
MulU64Overflows(a, b) == Let(LAMBDA p : \E i \in 9..16 : p[i] # 0, Mul(a, b))

(***************************************************************************)
(* colortype.rs                                                            *)
(***************************************************************************)
ColorType == {"L8", "La8", "Rgb8", "Rgba8", "L16", "La16", "Rgb16", "Rgba16",
              "Bgr8", "Bgra8"}

bytes_per_pixel(c) ==
    CASE c = "L8" -> 1
      [] c \in {"L16", "La8"} -> 2
      [] c \in {"Rgb8", "Bgr8"} -> 3
      [] c \in {"Rgba8", "Bgra8", "La16"} -> 4
      [] c = "Rgb16" -> 6
      [] c = "Rgba16" -> 8

\* the variants of ExtendedColorType without a payload
ExtendedVariants ==
    {"L1", "La1", "Rgb1", "Rgba1", "L2", "La2", "Rgb2", "Rgba2",
     "L4", "La4", "Rgb4", "Rgba4", "L8", "La8", "Rgb8", "Rgba8",
     "L16", "La16", "Rgb16", "Rgba16", "Bgr8", "Bgra8"}

\* an ExtendedColorType is a record: its variant, and the u8 of Unknown(_)
\* (0 for the variants without a payload)
Extended(v) == [variant |-> v, unknown |-> 0]

ExtendedColorType ==
    {Extended(v) : v \in ExtendedVariants}
    \cup {[variant |-> "Unknown", unknown |-> n] : n \in 0..255}

\* ExtendedColorType::channel_count
channel_count(e) ==
    CASE e.variant \in {"L1", "L2", "L4", "L8", "L16", "Unknown"} -> 1
      [] e.variant \in {"La1", "La2", "La4", "La8", "La16"} -> 2
      [] e.variant \in {"Rgb1", "Rgb2", "Rgb4", "Rgb8", "Rgb16", "Bgr8"} -> 3
      [] e.variant \in {"Rgba1", "Rgba2", "Rgba4", "Rgba8", "Rgba16", "Bgra8"} -> 4

\* a conversion that forgets the channel order of the two BGR variants
from_rgb_order(c) ==
    CASE c = "L8" -> Extended("L8")
      [] c = "La8" -> Extended("La8")
      [] c = "Rgb8" -> Extended("Rgb8")
      [] c = "Rgba8" -> Extended("Rgba8")
      [] c = "L16" -> Extended("L16")
      [] c = "La16" -> Extended("La16")
      [] c = "Rgb16" -> Extended("Rgb16")
      [] c = "Rgba16" -> Extended("Rgba16")
      [] c = "Bgr8" -> Extended("Rgb8")
      [] c = "Bgra8" -> Extended("Rgba8")

\* impl From<ColorType> for ExtendedColorType
from(c) ==
    CASE c = "L8" -> Extended("L8")
      [] c = "La8" -> Extended("La8")
      [] c = "Rgb8" -> Extended("Rgb8")
      [] c = "Rgba8" -> Extended("Rgba8")
      [] c = "L16" -> Extended("L16")
      [] c = "La16" -> Extended("La16")
      [] c = "Rgb16" -> Extended("Rgb16")
      [] c = "Rgba16" -> Extended("Rgba16")
      [] c = "Bgr8" -> Extended("Bgr8")
      [] c = "Bgra8" -> Extended("Bgra8")

(***************************************************************************)
(* decoder.rs: Progress.  A Progress p is a record of two u64, current and *)
(* total.                                                                  *)
(***************************************************************************)
MaxU64(a, b) == IF Less(a, b) THEN b ELSE a

\* self.total - self.current, without the max
remaining_unclamped(p) == Truncate(SubBorrow(p.total, p.current, 1, 0), 8)

\* self.total.max(self.current) - self.current, as the machine computes it
remaining(p) ==
    Truncate(SubBorrow(MaxU64(p.total, p.current), p.current, 1, 0), 8)

\* whether the subtraction of remaining() leaves the u64 range
remaining_underflows(p) ==
    SubBorrow(MaxU64(p.total, p.current), p.current, 1, 0)[9] # 0

(***************************************************************************)
(* decoder.rs: the ImageDecoder trait.  A decoder d is a record            *)
(*   dimensions : a pair of u32                                            *)
(*   color_type : a ColorType                                              *)
(*   scanline   : <<>> when the decoder keeps the default scanline_bytes,  *)
(*                else <<n>>, n the number of bytes its override returns   *)
(***************************************************************************)
\* u64::from(dimensions.0) * u64::from(dimensions.1)
PixelCount(d) == MulU64(Extend(d.dimensions[1], 8), Extend(d.dimensions[2], 8))

\* the product of the dimensions taken in u32, before any widening
total_bytes_narrow(d) ==
    MulU64(Extend(Truncate(Mul(d.dimensions[1], d.dimensions[2]), 4), 8),
           Extend(U8(bytes_per_pixel(d.color_type)), 8))

total_bytes(d) ==
    MulU64(PixelCount(d), Extend(U8(bytes_per_pixel(d.color_type)), 8))

\* whether one of the two multiplications of total_bytes leaves the u64 range
total_bytes_overflows(d) ==
    \/ MulU64Overflows(Extend(d.dimensions[1], 8), Extend(d.dimensions[2], 8))
    \/ MulU64Overflows(PixelCount(d), Extend(U8(bytes_per_pixel(d.color_type)), 8))

\* a default of one row of pixels, width * bytes_per_pixel
scanline_bytes_row(d) ==
    IF d.scanline = <<>>
    THEN MulU64(Extend(d.dimensions[1], 8), Extend(U8(bytes_per_pixel(d.color_type)), 8))
    ELSE U64(d.scanline[1])

scanline_bytes(d) ==
    IF d.scanline = <<>> THEN total_bytes(d) ELSE U64(d.scanline[1])

\* `x as usize`, for the values of the model, all of which are below 2^31
AsUsize(x) == ToInt(x)

\* the 4096 of read_image_with_progress
ReadTarget == 4096

\* a fixed read size, whatever the scanline
TargetReadSizeFixed(scanline) == ReadTarget

\* 4096 bytes below a scanline of 4096, whether or not they are whole scanlines
TargetReadSizeUnaligned(scanline) ==
    IF scanline < ReadTarget THEN ReadTarget ELSE scanline

\* whole scanlines, rounded up to cover 4096 bytes
TargetReadSizeRoundUp(scanline) ==
    IF scanline < ReadTarget
    THEN ((ReadTarget + scanline - 1) \div scanline) * scanline
    ELSE scanline

\* lines 113-117, for scanline_bytes # 0
TargetReadSize(scanline) ==
    IF scanline < ReadTarget
    THEN (ReadTarget \div scanline) * scanline
    ELSE scanline

(***************************************************************************)
(* The channel into_reader() returns.  Its i-th byte (from 0) is           *)
(* ChanByte(i), never 0; it delivers chan_len bytes and then fails.        *)
(***************************************************************************)
ChanByte(i) == 1 + (i % 251)

\* the caller's buffer before the call
BufInit(n) == [i \in 1..n |-> 0]

\* a read that, when the channel cannot fill the slice, puts the whole buffer
\* back to what it was before the call
ReadExactIntoRollback(b, off, n, pos, avail) ==
    IF avail - pos < n
    THEN BufInit(Len(b))
    ELSE [i \in 1..Len(b) |->
             IF i > off /\ i <= off + n THEN ChanByte(pos + (i - off - 1)) ELSE b[i]]

\* read_exact handed the front of the buffer instead of buf[off..]
ReadExactIntoFront(b, off, n, pos, avail) ==
    Let(LAMBDA got : [i \in 1..Len(b) |->
                         IF i <= got THEN ChanByte(pos + (i - 1)) ELSE b[i]],
        Min(n, avail - pos))

\* read_exact into b[off..][..n] with the channel at pos: the bytes the channel
\* still has are copied to the front of the slice, whether or not they fill it
ReadExactInto(b, off, n, pos, avail) ==
    Let(LAMBDA got : [i \in 1..Len(b) |->
                         IF i > off /\ i <= off + got
                         THEN ChanByte(pos + (i - off - 1))
                         ELSE b[i]],
        Min(n, avail - pos))

Event(kind, a, b) == [kind |-> kind, a |-> a, b |-> b]

\* the calls of one total_bytes(): itself, then dimensions() and color_type()
\* (lines 66 and 69)
TotalBytesCalls ==
    <<Event("total_bytes", 0, 0), Event("dimensions", 0, 0), Event("color_type", 0, 0)>>

\* the calls of one scanline_bytes(): itself, then total_bytes() unless the
\* decoder overrides the default (line 75)
ScanlineBytesCalls(d) ==
    <<Event("scanline_bytes", 0, 0)>>
    \o (IF d.scanline = <<>> THEN TotalBytesCalls ELSE <<>>)

(***************************************************************************)
(* The inputs of a call.                                                   *)
(***************************************************************************)
MaxDim == 1

ScanlineBytes == {1, 3, 200, 2000, 2049, 4095, 4096, 4097, 5000}

ScanlineOverrides == {<<>>} \cup {<<n>> : n \in ScanlineBytes}

\* images large enough for more than one read
LargeImages == {<<50, 50, "Rgba8">>}

Decoder(w, h, c, s) ==
    [dimensions |-> <<U32(w), U32(h)>>, color_type |-> c, scanline |-> s]

Decoders ==
    {Decoder(w, h, c, s) : w \in 0..MaxDim, h \in 0..MaxDim, c \in ColorType,
                           s \in ScanlineOverrides}
    \cup {Decoder(im[1], im[2], im[3], s) : im \in LargeImages, s \in ScanlineOverrides}

ChanLens(t) == {n \in {0, t \div 2, t - 1, t, t + 1, 4096} : n >= 0}

BufLens(t) == {0, 1, 2, t}

\* the state of a call that has not begun
NotCalled ==
    /\ chan_pos = 0
    /\ pc = "idle"
    /\ entry = None
    /\ target_read_size = 0
    /\ bytes_read = 0
    /\ total_bytes_local = 0
    /\ result = None
    /\ events = <<>>

Init ==
    /\ dec \in Decoders
    /\ reader_ok \in BOOLEAN
    /\ \E t \in {AsUsize(total_bytes(dec))} :
          /\ chan_len \in ChanLens(t)
          /\ buf \in {BufInit(n) : n \in BufLens(t)}
    /\ NotCalled
    /\ arg = <<>>
    /\ ret = <<>>
    /\ earlier = <<>>

(***************************************************************************)
(* read_image and read_image_with_progress, step by step.                  *)
(***************************************************************************)
\* read_image as one read_exact of the whole buffer, with no delegation
read_image_unchunked ==
    /\ pc = "idle"
    /\ entry' = "read_image"
    /\ pc' = "into_reader"
    /\ total_bytes_local' = Len(buf)
    /\ target_read_size' = Len(buf)
    /\ UNCHANGED <<dec, reader_ok, chan_len, chan_pos, buf, bytes_read, result, events,
                   arg, ret, earlier>>

\* line 99: read_image delegates, with a callback that does nothing
read_image ==
    /\ pc = "idle"
    /\ entry' = "read_image"
    /\ pc' = "assert"
    /\ UNCHANGED <<dec, reader_ok, chan_len, chan_pos, buf, target_read_size,
                   bytes_read, total_bytes_local, result, events, arg, ret, earlier>>

read_image_with_progress ==
    /\ pc = "idle"
    /\ entry' = "read_image_with_progress"
    /\ pc' = "assert"
    /\ UNCHANGED <<dec, reader_ok, chan_len, chan_pos, buf, target_read_size,
                   bytes_read, total_bytes_local, result, events, arg, ret, earlier>>

\* an assertion that the buffer is large enough, not that it is exact
AssertLenAtLeast ==
    /\ pc = "assert"
    /\ events' = events \o TotalBytesCalls
    /\ IF Len(buf) >= AsUsize(total_bytes(dec))
       THEN pc' = "sizes" /\ result' = result
       ELSE pc' = "panicked" /\ result' = "panic"
    /\ UNCHANGED <<dec, reader_ok, chan_len, chan_pos, buf, entry, target_read_size,
                   bytes_read, total_bytes_local, arg, ret, earlier>>

\* line 109
AssertLen ==
    /\ pc = "assert"
    /\ events' = events \o TotalBytesCalls
    /\ IF Len(buf) = AsUsize(total_bytes(dec))
       THEN pc' = "sizes" /\ result' = result
       ELSE pc' = "panicked" /\ result' = "panic"
    /\ UNCHANGED <<dec, reader_ok, chan_len, chan_pos, buf, entry, target_read_size,
                   bytes_read, total_bytes_local, arg, ret, earlier>>

\* lines 111-117
Sizes ==
    /\ pc = "sizes"
    /\ events' = events \o TotalBytesCalls \o ScanlineBytesCalls(dec)
    /\ total_bytes_local' = AsUsize(total_bytes(dec))
    /\ \E scanline \in {AsUsize(scanline_bytes(dec))} :
          IF scanline = 0
          THEN \* 4096 / 0 at line 114
               /\ pc' = "panicked"
               /\ result' = "panic"
               /\ target_read_size' = target_read_size
          ELSE /\ pc' = "into_reader"
               /\ result' = result
               /\ target_read_size' = TargetReadSize(scanline)
    /\ UNCHANGED <<dec, reader_ok, chan_len, chan_pos, buf, entry, bytes_read, arg, ret, earlier>>

\* into_reader()'s failure not propagated
IntoReaderUnchecked ==
    /\ pc = "into_reader"
    /\ events' = Append(events, Event("into_reader", 0, 0))
    /\ pc' = "loop"
    /\ bytes_read' = 0
    /\ UNCHANGED <<dec, reader_ok, chan_len, chan_pos, buf, entry, target_read_size,
                   total_bytes_local, result, arg, ret, earlier>>

\* lines 119 and 121
IntoReader ==
    /\ pc = "into_reader"
    /\ events' = Append(events, Event("into_reader", 0, 0))
    /\ IF reader_ok
       THEN pc' = "loop" /\ result' = result
       ELSE pc' = "returned" /\ result' = "Err"
    /\ bytes_read' = 0
    /\ UNCHANGED <<dec, reader_ok, chan_len, chan_pos, buf, entry, target_read_size,
                   total_bytes_local, arg, ret, earlier>>

\* a successful read after which bytes_read is left as it was
ReadOkStuck(read_size) ==
    /\ chan_pos' = chan_pos + read_size
    /\ bytes_read' = bytes_read
    /\ events' = Append(events, Event("read", bytes_read, read_size))
    /\ pc' = "progress"
    /\ result' = result

\* line 124 succeeding, line 125
ReadOk(read_size) ==
    /\ chan_pos' = chan_pos + read_size
    /\ bytes_read' = bytes_read + read_size
    /\ events' = Append(events, Event("read", bytes_read, read_size))
    /\ pc' = "progress"
    /\ result' = result

\* a failed read taken for a successful one
ReadErrSwallowed(read_size) ==
    /\ chan_pos' = chan_len
    /\ bytes_read' = bytes_read + read_size
    /\ events' = Append(events, Event("read_failed", bytes_read, read_size))
    /\ pc' = "progress"
    /\ result' = result

\* line 124 failing: the `?` returns the error
ReadErr(read_size) ==
    /\ chan_pos' = chan_len
    /\ bytes_read' = bytes_read
    /\ events' = Append(events, Event("read_failed", bytes_read, read_size))
    /\ pc' = "returned"
    /\ result' = "Err"

\* a loop that asks for target_read_size bytes whatever is left to read
ReadUnclamped ==
    /\ pc = "loop"
    /\ bytes_read < total_bytes_local
    /\ \E read_size \in {target_read_size} :
          IF bytes_read + read_size > Len(buf)
          THEN /\ pc' = "panicked"
               /\ result' = "panic"
               /\ UNCHANGED <<buf, chan_pos, bytes_read, events>>
          ELSE /\ buf' = ReadExactInto(buf, bytes_read, read_size, chan_pos, chan_len)
               /\ IF chan_pos + read_size <= chan_len
                  THEN ReadOk(read_size)
                  ELSE ReadErr(read_size)
    /\ UNCHANGED <<dec, reader_ok, chan_len, entry, target_read_size,
                   total_bytes_local, arg, ret, earlier>>

\* lines 122-125: one turn of the loop up to the callback
Read ==
    /\ pc = "loop"
    /\ bytes_read < total_bytes_local
    /\ \E read_size \in {Min(target_read_size, total_bytes_local - bytes_read)} :
          IF bytes_read + read_size > Len(buf)
          THEN \* the slice buf[bytes_read..][..read_size] is out of range
               /\ pc' = "panicked"
               /\ result' = "panic"
               /\ UNCHANGED <<buf, chan_pos, bytes_read, events>>
          ELSE /\ buf' = ReadExactInto(buf, bytes_read, read_size, chan_pos, chan_len)
               /\ IF chan_pos + read_size <= chan_len
                  THEN ReadOk(read_size)
                  ELSE ReadErr(read_size)
    /\ UNCHANGED <<dec, reader_ok, chan_len, entry, target_read_size,
                   total_bytes_local, arg, ret, earlier>>

\* a callback handed a total that is asked of the decoder again
ProgressCallbackRequery ==
    /\ pc = "progress"
    /\ events' = events \o TotalBytesCalls
                        \o <<Event("progress", bytes_read, AsUsize(total_bytes(dec)))>>
    /\ pc' = "loop"
    /\ UNCHANGED <<dec, reader_ok, chan_len, chan_pos, buf, entry, target_read_size,
                   bytes_read, total_bytes_local, result, arg, ret, earlier>>

\* the two fields of Progress taken for one another
ProgressCallbackSwapped ==
    /\ pc = "progress"
    /\ events' = Append(events, Event("progress", total_bytes_local, bytes_read))
    /\ pc' = "loop"
    /\ UNCHANGED <<dec, reader_ok, chan_len, chan_pos, buf, entry, target_read_size,
                   bytes_read, total_bytes_local, result, arg, ret, earlier>>

\* lines 127-130: an event "progress" carries current in a and total in b
ProgressCallback ==
    /\ pc = "progress"
    /\ events' = Append(events, Event("progress", bytes_read, total_bytes_local))
    /\ pc' = "loop"
    /\ UNCHANGED <<dec, reader_ok, chan_len, chan_pos, buf, entry, target_read_size,
                   bytes_read, total_bytes_local, result, arg, ret, earlier>>

\* line 122 false, line 133
Return ==
    /\ pc = "loop"
    /\ ~(bytes_read < total_bytes_local)
    /\ pc' = "returned"
    /\ result' = "Ok"
    /\ UNCHANGED <<dec, reader_ok, chan_len, chan_pos, buf, entry, target_read_size,
                   bytes_read, total_bytes_local, events, arg, ret, earlier>>

Next ==
    \/ read_image
    \/ read_image_with_progress
    \/ AssertLen
    \/ Sizes
    \/ IntoReader
    \/ Read
    \/ ProgressCallback
    \/ Return

Spec == Init /\ [][Next]_vars

\* the inputs of Init for pixels of 1, 4 and 6 bytes
InitFewColors == Init /\ dec.color_type \in {"L8", "Rgba8", "Rgb16"}

\* the call is sequential code on one thread and every read on the channel
\* returns: whatever step is next is eventually taken
FairSpec == InitFewColors /\ [][Next]_vars /\ WF_vars(Next)

(***************************************************************************)
(* Two calls, one after the other, on the same inputs: a decoder with the  *)
(* same answers, a channel with the same content from its start, a buffer  *)
(* as the first call found it.                                             *)
(***************************************************************************)
\* what a call that has ended did: the reads it issued, what it returned and
\* what it left in the buffer
Outcome == [entry |-> entry,
            reads |-> SelectSeq(events, LAMBDA e : e.kind \in {"read", "read_failed"}),
            result |-> result,
            buf |-> buf]

CallAgain ==
    /\ pc \in {"returned", "panicked"}
    /\ earlier = <<>>
    /\ earlier' = <<Outcome>>
    /\ buf' = BufInit(Len(buf))
    /\ chan_pos' = 0
    /\ pc' = "idle"
    /\ entry' = None
    /\ target_read_size' = 0
    /\ bytes_read' = 0
    /\ total_bytes_local' = 0
    /\ result' = None
    /\ events' = <<>>
    /\ UNCHANGED <<dec, reader_ok, chan_len, arg, ret>>

NextTwice == Next \/ CallAgain

SpecTwice == InitFewColors /\ [][NextTwice]_vars

(***************************************************************************)
(* The pure functions, each applied to inputs drawn from a bounded set.    *)
(* The call variables stay as they are before a call.                      *)
(***************************************************************************)
Parked ==
    /\ dec = Decoder(0, 0, "L8", <<>>)
    /\ reader_ok = TRUE
    /\ chan_len = 0
    /\ buf = <<>>
    /\ NotCalled
    /\ earlier = <<>>

\* the scanline sizes tried range over 1..MaxScanline
MaxScanline == 4200

InitTargetReadSize ==
    /\ Parked
    /\ arg \in 1..MaxScanline
    /\ ret = <<>>

CallTargetReadSize ==
    /\ ret = <<>>
    /\ ret' = <<TargetReadSize(arg)>>
    /\ UNCHANGED <<callVars, arg>>

SpecTargetReadSize == InitTargetReadSize /\ [][CallTargetReadSize]_vars

\* 2^32 - 1, 2^32, 2^63, 2^64 - 2 and 2^64 - 1 among them
U64Samples ==
    {U64(0), U64(1), U64(5), U64(10), U64(255), U64(256), U64(65536),
     <<255, 255, 255, 255, 0, 0, 0, 0>>, <<0, 0, 0, 0, 1, 0, 0, 0>>,
     <<0, 0, 0, 0, 0, 0, 0, 128>>,
     <<254, 255, 255, 255, 255, 255, 255, 255>>,
     <<255, 255, 255, 255, 255, 255, 255, 255>>}

InitRemaining ==
    /\ Parked
    /\ arg \in [current : U64Samples, total : U64Samples]
    /\ ret = <<>>

CallRemaining ==
    /\ ret = <<>>
    /\ ret' = <<[value |-> remaining(arg), underflow |-> remaining_underflows(arg)]>>
    /\ UNCHANGED <<callVars, arg>>

SpecRemaining == InitRemaining /\ [][CallRemaining]_vars

\* 2^20 - 1, 2^20, 2^20 + 1, 2^31 and 2^32 - 1 among them
U32Samples ==
    {U32(0), U32(1), U32(2), U32(3), U32(255), U32(256), U32(65535), U32(65536),
     U32(1048575), U32(1048576), U32(1048577),
     <<0, 0, 0, 128>>, <<255, 255, 255, 255>>}

InitTotalBytes ==
    /\ Parked
    /\ arg \in [dimensions : U32Samples \X U32Samples, color_type : ColorType,
                scanline : {<<>>}]
    /\ ret = <<>>

CallTotalBytes ==
    /\ ret = <<>>
    /\ ret' = <<[value |-> total_bytes(arg), overflow |-> total_bytes_overflows(arg)]>>
    /\ UNCHANGED <<callVars, arg>>

SpecTotalBytes == InitTotalBytes /\ [][CallTotalBytes]_vars

\* the conversion applied to two color types, so that its values on distinct
\* inputs can be compared
InitFrom ==
    /\ Parked
    /\ arg \in ColorType \X ColorType
    /\ ret = <<>>

CallFrom ==
    /\ ret = <<>>
    /\ ret' = <<[first |-> from(arg[1]), second |-> from(arg[2])]>>
    /\ UNCHANGED <<callVars, arg>>

SpecFrom == InitFrom /\ [][CallFrom]_vars

(***************************************************************************)
(* What the properties below speak of.                                     *)
(***************************************************************************)
Total == AsUsize(total_bytes(dec))

Scanline == AsUsize(scanline_bytes(dec))

Terminated == pc \in {"returned", "panicked"}

Kinds(k) == SelectSeq(events, LAMBDA e : e.kind = k)

\* the queries of the decoder's metadata
Metadata == {"dimensions", "color_type", "total_bytes", "scanline_bytes"}

\* the progress callbacks made so far
Progresses == Kinds("progress")

\* the reads issued on the channel so far
ReadEvents == SelectSeq(events, LAMBDA e : e.kind \in {"read", "read_failed"})

\* the first n bytes the channel produces
ChanPrefix(n) == [i \in 1..n |-> ChanByte(i - 1)]

RECURSIVE ResidueFrom(_, _, _)
\* the value of digits i.. of a, modulo p
ResidueFrom(a, i, p) ==
    IF i > Len(a) THEN 0 ELSE (a[i] + Base * (ResidueFrom(a, i + 1, p))) % p

Residue(a, p) == Let(LAMBDA x : ResidueFrom(x, 1, p), a)

\* five primes whose product exceeds 2^67, hence any w * h * bytes_per_pixel
\* and any u64: two such numbers with the same residues are equal
Primes == {32749, 32719, 32717, 32713, 32707}

TwoPow20 == U32(1048576)

C1_Case ==
    /\ entry = "read_image_with_progress"
    /\ Total = 10000
    /\ Scanline = 2000
    /\ Len(buf) = 10000
    /\ reader_ok
    /\ chan_len >= 10000

C1_Chunked(chunk, expected) ==
    C1_Case =>
        /\ pc \in {"into_reader", "loop", "progress", "returned"} => target_read_size = chunk
        /\ Len(Progresses) <= Len(expected)
        /\ Progresses = SubSeq(expected, 1, Len(Progresses))
        /\ Terminated => pc = "returned" /\ result = "Ok" /\ Progresses = expected

(***************************************************************************)
(* C1, amended: for total_bytes() = 10000 and scanline_bytes() = 2000,     *)
(* whose channel never fails, read_image_with_progress reads in chunks of  *)
(* 4000 = (4096 / 2000) * 2000 and makes exactly 3 progress callbacks,     *)
(* current = 4000, 8000, 10000 in that order, total = 10000 in each.       *)
(***************************************************************************)
C1_ThreeCallbacks ==
    C1_Chunked(4000, <<Event("progress", 4000, 10000), Event("progress", 8000, 10000),
                       Event("progress", 10000, 10000)>>)

C1_Witness == C1_Case /\ pc = "returned" /\ Len(Progresses) = 3

\* C1 as first stated: chunks of 2000 and exactly 5 progress callbacks, current =
\* 2000, 4000, 6000, 8000, 10000 in that order, total = 10000 in each
C1_FiveCallbacks ==
    C1_Chunked(2000, <<Event("progress", 2000, 10000), Event("progress", 4000, 10000),
                       Event("progress", 6000, 10000), Event("progress", 8000, 10000),
                       Event("progress", 10000, 10000)>>)

C2_Case ==
    /\ entry = "read_image"
    /\ Total >= 1
    /\ Scanline >= 1
    /\ reader_ok
    /\ chan_len = Total
    /\ Len(buf) = Total

(***************************************************************************)
(* C2: when total_bytes() >= 1, scanline_bytes() >= 1, the channel         *)
(* delivers exactly total_bytes() bytes and the buffer is total_bytes()    *)
(* long, read_image returns Ok and byte i of the buffer is the i-th byte   *)
(* the channel produced.                                                   *)
(***************************************************************************)
C2_RoundTrip ==
    (C2_Case /\ Terminated) =>
        /\ pc = "returned"
        /\ result = "Ok"
        /\ buf = ChanPrefix(Total)

C2_Witness == C2_Case /\ pc = "returned" /\ Len(Kinds("read")) >= 3

C3_Case ==
    /\ entry # None
    /\ dec.scanline = <<>>
    /\ Total = 0
    /\ Len(buf) = 0

(***************************************************************************)
(* C3: for an empty image (total_bytes() = 0) whose decoder keeps the      *)
(* default scanline_bytes(), a call with an empty buffer returns Ok        *)
(* without panicking, with no read on the channel and no progress callback.*)
(***************************************************************************)
C3_EmptyImageOk ==
    (C3_Case /\ Terminated) =>
        /\ pc = "returned"
        /\ result = "Ok"
        /\ ReadEvents = <<>>
        /\ Progresses = <<>>

(***************************************************************************)
(* C4: for scanline_bytes >= 1 the chunk size is, below 4096, the largest  *)
(* multiple of scanline_bytes that is <= 4096 (a multiple, at most 4096,   *)
(* and more than 4096 - scanline_bytes), and from 4096 on scanline_bytes   *)
(* itself.                                                                 *)
(***************************************************************************)
C4_ChunkSize ==
    ret # <<>> =>
        IF arg < 4096
        THEN /\ ret[1] % arg = 0
             /\ ret[1] <= 4096
             /\ ret[1] > 4096 - arg
        ELSE ret[1] = arg

C4_Witness == ret = <<4095>> /\ arg = 3

C5_Case == Len(buf) # Total

(***************************************************************************)
(* C5: a call with a buffer whose length differs from total_bytes() panics *)
(* before into_reader(), before any read on the channel and before any     *)
(* progress callback, and leaves the buffer as it was.                     *)
(***************************************************************************)
C5_SizeMismatchPanics ==
    C5_Case =>
        /\ pc \in {"idle", "assert", "panicked"}
        /\ pc = "panicked" => result = "panic"
        /\ \A i \in 1..Len(events) : events[i].kind \in Metadata
        /\ chan_pos = 0
        /\ buf = BufInit(Len(buf))

C5_Witness == C5_Case /\ pc = "panicked" /\ Len(buf) = 2 /\ entry = "read_image"

(***************************************************************************)
(* C6: the first failing read (a short read included) ends the call: it    *)
(* returns Err, nothing is read or reported afterwards, and the callbacks  *)
(* made are as many as the chunks read successfully before the failure.    *)
(***************************************************************************)
C6_FirstFailureEnds ==
    \A i \in 1..Len(events) :
        events[i].kind = "read_failed" =>
            /\ i = Len(events)
            /\ pc = "returned"
            /\ result = "Err"
            /\ Len(Progresses) = Len(Kinds("read"))

C6_Witness ==
    /\ pc = "returned"
    /\ result = "Err"
    /\ Len(Kinds("read_failed")) = 1
    /\ Len(Kinds("read")) = 2
    /\ chan_pos > bytes_read

C7_Case ==
    /\ entry = "read_image_with_progress"
    /\ ~reader_ok
    /\ Len(buf) = Total
    /\ Scanline >= 1

(***************************************************************************)
(* C7: when into_reader() fails (buffer of the right length,               *)
(* scanline_bytes() >= 1), read_image_with_progress returns Err with no    *)
(* read performed, no progress callback made and the buffer as it was.     *)
(***************************************************************************)
C7_IntoReaderFailure ==
    C7_Case =>
        /\ pc \in {"assert", "sizes", "into_reader", "returned"}
        /\ pc = "returned" => result = "Err"
        /\ ReadEvents = <<>>
        /\ Progresses = <<>>
        /\ chan_pos = 0
        /\ buf = BufInit(Len(buf))

C7_Witness ==
    /\ C7_Case
    /\ pc = "returned"
    /\ Len(buf) = 10000
    /\ Kinds("into_reader") # <<>>

(***************************************************************************)
(* C8: the progress callback is made exactly once after each successful    *)
(* chunk read and never before the first read; its current values are      *)
(* strictly increasing, each the number of bytes written to the buffer so  *)
(* far and at most total; total is total_bytes() every time; and in a run  *)
(* that returns Ok the last callback has current = total.                  *)
(***************************************************************************)
C8_ProgressAfterEachRead ==
    /\ \A i \in 1..Len(events) :
          /\ events[i].kind = "progress" =>
                /\ i > 1
                /\ events[i - 1].kind = "read"
                /\ events[i].a = events[i - 1].a + events[i - 1].b
                /\ events[i].a <= Total
                /\ events[i].b = Total
          /\ events[i].kind = "read" =>
                IF i < Len(events)
                THEN events[i + 1].kind = "progress"
                ELSE pc = "progress"
    /\ \A i, j \in 1..Len(Progresses) : i < j => Progresses[i].a < Progresses[j].a
    /\ (events # <<>> /\ events[Len(events)].kind = "progress") =>
          \A j \in 1..Len(buf) : buf[j] # 0 <=> j <= events[Len(events)].a
    /\ (pc = "returned" /\ result = "Ok" /\ Total > 0) =>
          /\ Progresses # <<>>
          /\ Progresses[Len(Progresses)].a = Progresses[Len(Progresses)].b

C8_Witness ==
    /\ pc = "returned"
    /\ result = "Ok"
    /\ Len(Progresses) = 3
    /\ Progresses[2].a = 8192

(***************************************************************************)
(* C9: Progress::remaining() is total - current when total >= current and  *)
(* 0 when current > total, and its subtraction never underflows.           *)
(***************************************************************************)
C9_Remaining ==
    ret # <<>> =>
        /\ ~ret[1].underflow
        /\ IF Leq(arg.current, arg.total)
           THEN Add(ret[1].value, arg.current) = Extend(arg.total, 9)
           ELSE IsZero(ret[1].value)

C9_Witness ==
    /\ ret # <<>>
    /\ arg = [current |-> U64(10), total |-> U64(5)]
    /\ ret[1].value = U64(0)

C10_Case ==
    /\ ret # <<>>
    /\ Leq(arg.dimensions[1], TwoPow20)
    /\ Leq(arg.dimensions[2], TwoPow20)

(***************************************************************************)
(* C10: for width and height up to 2^20 and every ColorType, the default   *)
(* total_bytes() is width * height * bytes_per_pixel, and neither of its   *)
(* multiplications overflows.                                              *)
(***************************************************************************)
C10_TotalBytesExact ==
    C10_Case =>
        /\ ~ret[1].overflow
        /\ \A p \in Primes :
              Residue(ret[1].value, p) =
                  (((Residue(arg.dimensions[1], p) * Residue(arg.dimensions[2], p)) % p)
                   * bytes_per_pixel(arg.color_type)) % p

C10_Witness ==
    /\ C10_Case
    /\ arg.dimensions = <<TwoPow20, TwoPow20>>
    /\ arg.color_type = "Rgba16"
    /\ ret[1].value = <<0, 0, 0, 0, 0, 8, 0, 0>>

\* the sample depth in bytes that the name of a ColorType states
SampleBytes(c) == IF c \in {"L16", "La16", "Rgb16", "Rgba16"} THEN 2 ELSE 1

(***************************************************************************)
(* C11: the conversion of ColorType into ExtendedColorType maps each of    *)
(* the ten variants to the extended variant of the same name (Bgr8 to      *)
(* Bgr8, Bgra8 to Bgra8), never to Unknown(_) nor to a variant of 1, 2 or  *)
(* 4 bits; it keeps the number of channels; and distinct color types have  *)
(* distinct images.                                                        *)
(***************************************************************************)
C11_FromInjective ==
    ret # <<>> =>
        /\ ret[1].first = Extended(arg[1])
        /\ ret[1].second = Extended(arg[2])
        /\ ret[1].first \in ExtendedColorType
        /\ ret[1].first.variant \in ColorType
        /\ channel_count(ret[1].first) * SampleBytes(arg[1]) = bytes_per_pixel(arg[1])
        /\ arg[1] # arg[2] => ret[1].first # ret[1].second

C11_Witness ==
    /\ ret # <<>>
    /\ arg = <<"Bgr8", "Rgb8">>
    /\ ret[1].first.variant = "Bgr8"
    /\ ret[1].second.variant = "Rgb8"

RECURSIVE SumSizes(_)
\* the sizes of a sequence of reads, added up
SumSizes(reads) == IF reads = <<>> THEN 0 ELSE reads[1].b + SumSizes(Tail(reads))

\* the bytes asked of the channel so far
Requested == SumSizes(ReadEvents)

\* a call that got as far as the loop
C12_Case ==
    /\ Scanline >= 1
    /\ reader_ok
    /\ Kinds("into_reader") # <<>>

C12_Reads ==
    C12_Case =>
        /\ 0 <= bytes_read
        /\ bytes_read <= Total
        /\ pc # "panicked"
        /\ \A i \in 1..Len(ReadEvents) :
              /\ ReadEvents[i].a =
                    (IF i = 1 THEN 0 ELSE ReadEvents[i - 1].a + ReadEvents[i - 1].b)
              /\ 1 <= ReadEvents[i].b
              /\ ReadEvents[i].b <= Total - ReadEvents[i].a
              /\ ReadEvents[i].a + ReadEvents[i].b <= Len(buf)
              /\ i < Len(ReadEvents) => ReadEvents[i].kind = "read"
        /\ ReadEvents # <<>> =>
              bytes_read = ReadEvents[Len(ReadEvents)].a
                           + (IF ReadEvents[Len(ReadEvents)].kind = "read"
                              THEN ReadEvents[Len(ReadEvents)].b ELSE 0)
        /\ Requested <= Total

(***************************************************************************)
(* C12, amended: in the read loop (scanline_bytes() >= 1), 0 <= bytes_read *)
(* <= total_bytes; the first read is at offset 0 and each later one where  *)
(* the one before ended; each has 1 <= read_size <= total_bytes - offset   *)
(* and ends within the buffer; the bytes requested never exceed            *)
(* total_bytes() and equal it whenever the call returns Ok.                *)
(***************************************************************************)
C12_ReadsInBounds ==
    /\ C12_Reads
    /\ (C12_Case /\ pc = "returned" /\ result = "Ok") => Requested = Total

C12_Witness ==
    /\ C12_Case
    /\ pc = "returned"
    /\ result = "Ok"
    /\ Scanline = 3
    /\ Len(ReadEvents) = 3
    /\ ReadEvents[3].b = 1810

\* C12 as first stated: the same, the bytes requested being total_bytes()
\* exactly when the call returns Ok, that is, in no call that returns an error
C12_RequestedAllIffOk ==
    /\ C12_Reads
    /\ (C12_Case /\ Terminated) => (Requested = Total <=> result = "Ok")

(***************************************************************************)
(* C13: for scanline_bytes() >= 1 every read starts at an offset that is a *)
(* multiple of scanline_bytes; every read that does not reach the end of   *)
(* the image has a size that is a positive multiple of scanline_bytes; and *)
(* so has the read that reaches the end when scanline_bytes divides        *)
(* total_bytes.                                                            *)
(***************************************************************************)
C13_ScanlineAligned ==
    Scanline >= 1 =>
        \A i \in 1..Len(ReadEvents) :
            /\ ReadEvents[i].a % Scanline = 0
            /\ (ReadEvents[i].a + ReadEvents[i].b < Total \/ Total % Scanline = 0) =>
                  /\ ReadEvents[i].b >= Scanline
                  /\ ReadEvents[i].b % Scanline = 0

C13_Witness ==
    /\ Scanline = 3
    /\ Total % Scanline # 0
    /\ pc = "returned"
    /\ result = "Ok"
    /\ Len(ReadEvents) = 3
    /\ ReadEvents[2].a = 4095
    /\ ReadEvents[3].b % Scanline # 0

\* the call ended on a failed read
C14_Case == events # <<>> /\ events[Len(events)].kind = "read_failed"

(***************************************************************************)
(* C14: after a failed read, the buffer holds, up to the offset of the     *)
(* failed chunk, the bytes the channel delivered for the chunks read       *)
(* before it, and from the end of the failed chunk's range on, what it     *)
(* held before the call.                                                   *)
(***************************************************************************)
C14_FailureKeepsBuffer ==
    C14_Case =>
        /\ \A j \in 1..events[Len(events)].a : buf[j] = ChanByte(j - 1)
        /\ \A j \in (events[Len(events)].a + events[Len(events)].b + 1)..Len(buf) :
              buf[j] = BufInit(Len(buf))[j]

C14_Witness ==
    /\ C14_Case
    /\ Len(Kinds("read")) = 1
    /\ events[Len(events)].a = 4000
    /\ events[Len(events)].b = 4000
    /\ Len(buf) = 10000
    /\ buf[4000] # 0
    /\ buf[8001] = 0

(***************************************************************************)
(* C15: within one call into_reader() is invoked at most once; when it is, *)
(* the size assertion has passed, each of dimensions, color_type,          *)
(* total_bytes and scanline_bytes has been queried, and nothing but such   *)
(* queries came before; no metadata is queried after it; and a read on the *)
(* channel happens only after an into_reader() that succeeded.             *)
(***************************************************************************)
C15_IntoReaderOrder ==
    /\ Len(Kinds("into_reader")) <= 1
    /\ pc \in {"idle", "assert", "sizes", "into_reader"} => Kinds("into_reader") = <<>>
    /\ \A i \in 1..Len(events) :
          /\ events[i].kind = "into_reader" =>
                /\ Len(buf) = Total
                /\ \A j \in 1..(i - 1) : events[j].kind \in Metadata
                /\ \A k \in Metadata : \E j \in 1..(i - 1) : events[j].kind = k
                /\ \A j \in (i + 1)..Len(events) : events[j].kind \notin Metadata
          /\ events[i].kind \in {"read", "read_failed"} =>
                /\ reader_ok
                /\ \E j \in 1..(i - 1) : events[j].kind = "into_reader"

C15_Witness ==
    /\ pc = "returned"
    /\ result = "Ok"
    /\ Len(Kinds("into_reader")) = 1
    /\ Len(Kinds("read")) = 3
    /\ Len(Progresses) = 3
    /\ dec.scanline # <<>>

\* a / b rounded up
Ceil(a, b) == (a + b - 1) \div b

(***************************************************************************)
(* C16: for scanline_bytes() >= 1 the read loop, once entered, comes to an *)
(* end (every turn that reads successfully moves bytes_read forward, and   *)
(* never beyond total_bytes); and a call that returns Ok has made exactly  *)
(* ceil(total_bytes / chunk_size) reads and as many progress callbacks.    *)
(***************************************************************************)
C16_LoopTerminates ==
    /\ (pc = "loop" /\ Scanline >= 1) ~> Terminated
    /\ [][(pc = "loop" /\ pc' = "progress") =>
             (bytes_read' > bytes_read /\ bytes_read' <= total_bytes_local)]_vars
    /\ []((Scanline >= 1 /\ pc = "returned" /\ result = "Ok") =>
             /\ Len(Kinds("read")) = Ceil(Total, TargetReadSize(Scanline))
             /\ Len(Progresses) = Ceil(Total, TargetReadSize(Scanline))
             /\ Kinds("read_failed") = <<>>)

C16_Witness ==
    /\ pc = "returned"
    /\ result = "Ok"
    /\ Total = 10000
    /\ Scanline = 3
    /\ Len(Kinds("read")) = 3
    /\ Ceil(Total, TargetReadSize(Scanline)) = 3

C17_Case ==
    /\ entry = "read_image_with_progress"
    /\ dec.scanline = <<>>
    /\ Total >= 1
    /\ reader_ok
    /\ chan_len >= Total
    /\ Len(buf) = Total

(***************************************************************************)
(* C17: for a decoder that keeps the default scanline_bytes(), with        *)
(* total_bytes() >= 1 and a channel that does not fail,                    *)
(* read_image_with_progress makes exactly one read, of total_bytes() bytes *)
(* at offset 0, and exactly one progress callback, with current = total =  *)
(* total_bytes(), then returns Ok; below 4096 bytes and from 4096 on.      *)
(***************************************************************************)
C17_WholeImageAtOnce ==
    C17_Case =>
        /\ Scanline = Total
        /\ Len(ReadEvents) <= 1
        /\ Len(Progresses) <= 1
        /\ Terminated =>
              /\ pc = "returned"
              /\ result = "Ok"
              /\ ReadEvents = <<Event("read", 0, Total)>>
              /\ Progresses = <<Event("progress", Total, Total)>>

C17_Witness ==
    /\ C17_Case
    /\ pc = "returned"
    /\ Total = 10000
    /\ target_read_size = 10000
    /\ Len(ReadEvents) = 1

(***************************************************************************)
(* C18: for every u32 width, every u32 height and every ColorType, the     *)
(* default total_bytes() is width * height * bytes_per_pixel, and neither  *)
(* of its 64-bit multiplications overflows.                                *)
(***************************************************************************)
C18_TotalBytesNeverOverflows ==
    ret # <<>> =>
        /\ ~ret[1].overflow
        /\ \A p \in Primes :
              Residue(ret[1].value, p) =
                  (((Residue(arg.dimensions[1], p) * Residue(arg.dimensions[2], p)) % p)
                   * bytes_per_pixel(arg.color_type)) % p

\* a second call has ended, made through the other method than the first
C19_Case ==
    /\ earlier # <<>>
    /\ Terminated
    /\ {earlier[1].entry, entry} = {"read_image", "read_image_with_progress"}

====
